---------------------------- MODULE Spec2Model ----------------------------
(***************************************************************************)
(* PyBATS forecast.py: the multi-step-ahead forecast functions of a DGLM.  *)
(*                                                                         *)
(* Numbers are exact rationals <<n, d>> (d > 0, lowest terms); a vector is *)
(* a sequence of rationals, a matrix a sequence of rows.  NaN and None are *)
(* distinguished values.  Python objects live in `heap`: the caller's      *)
(* model fields under "mod.*", the locals of the running call under their  *)
(* own names; a local array variable is a reference into the heap, so that *)
(* an in-place write (F[iregn] = ..., R += ...) lands on whatever object   *)
(* the variable is bound to.                                               *)
(***************************************************************************)
EXTENDS Integers, Sequences, FiniteSets, TLC

VARIABLES heap, pc, ret

vars == <<heap, pc, ret>>

---------------------------------------------------------------------------
\* Bounds of the model.

\* largest forecast horizon k requested
MaxK == 3
\* horizons below 1 that are requested: k ranges over (1 - MaxNeg) .. MaxK
MaxNeg == 2

---------------------------------------------------------------------------
\* Exact arithmetic standing for numpy's float arithmetic.

Abs(x) == IF x < 0 THEN -x ELSE x

RECURSIVE GCD(_, _)
\* (the arguments are bound to their values before the recursion uses them)
GCD(x0, y0) ==
    CHOOSE r \in {IF y = 0 THEN x ELSE GCD(y, x % y) : x \in {x0}, y \in {y0}} : TRUE

Norm(n, d) ==
    LET g == GCD(Abs(n), Abs(d))
        s == IF d < 0 THEN -1 ELSE 1
    IN  <<(s * n) \div g, (s * d) \div g>>

Q(n) == <<n, 1>>
RAdd(x, y) ==
    LET g == GCD(x[2], y[2])
    IN  Norm(x[1] * (y[2] \div g) + y[1] * (x[2] \div g), x[2] * (y[2] \div g))
RNeg(x) == <<-x[1], x[2]>>
RSub(x, y) == RAdd(x, RNeg(y))
RMul(x, y) ==
    LET g1 == GCD(Abs(x[1]), y[2])
        g2 == GCD(Abs(y[1]), x[2])
    IN  <<(x[1] \div g1) * (y[1] \div g2), (x[2] \div g2) * (y[2] \div g1)>>
RInv(x) == IF x[1] < 0 THEN <<-x[2], -x[1]>> ELSE <<x[2], x[1]>>
RDiv(x, y) == RMul(x, RInv(y))

NaN == <<"nan">>
None == <<"None">>
isnan(v) == v = NaN
\* Let(e, F) is F applied to the value of e, computed once
Let(e, F(_)) == CHOOSE r \in {F(x) : x \in {e}} : TRUE

\* an optional array argument: None, or the array given
Array(v) == <<"array", v>>
IsNone(v) == v[1] = "None"

---------------------------------------------------------------------------
\* Dense linear algebra: numpy's matrix product, transpose, sum and scaling.

\* u[1] v[1] + ... + u[n] v[n]
Dot(u, v) ==
    LET S[n \in 0..Len(u)] == IF n = 0 THEN Q(0) ELSE RAdd(S[n - 1], RMul(u[n], v[n]))
    IN  S[Len(u)]
\* a vector or matrix built element by element is computed once, as an array
Vec(f) == f \o <<>>
Col(M, j) == Vec([i \in 1..Len(M) |-> M[i][j]])
Transpose(M) == Vec([j \in 1..Len(M[1]) |-> Col(M, j)])
MatVec(M, v) == Vec([i \in 1..Len(M) |-> Dot(M[i], v)])
VecMat(v, M) == Vec([j \in 1..Len(M[1]) |-> Dot(v, Col(M, j))])
MatMul(A, B) ==
    LET BT == Transpose(B)
    IN  Vec([i \in 1..Len(A) |-> Vec([j \in 1..Len(BT) |-> Dot(A[i], BT[j])])])
MatAdd(A, B) == Vec([i \in 1..Len(A) |-> Vec([j \in 1..Len(A[i]) |-> RAdd(A[i][j], B[i][j])])])
MatSub(A, B) == Vec([i \in 1..Len(A) |-> Vec([j \in 1..Len(A[i]) |-> RSub(A[i][j], B[i][j])])])
MatScale(c, A) == Vec([i \in 1..Len(A) |-> Vec([j \in 1..Len(A[i]) |-> RMul(c, A[i][j])])])
VecAdd(u, v) == Vec([i \in 1..Len(u) |-> RAdd(u[i], v[i])])
VecScale(c, u) == Vec([i \in 1..Len(u) |-> RMul(c, u[i])])
Outer(u, v) == Vec([i \in 1..Len(u) |-> Vec([j \in 1..Len(v) |-> RMul(u[i], v[j])])])
Eye(p) == Vec([i \in 1..p |-> Vec([j \in 1..p |-> IF i = j THEN Q(1) ELSE Q(0)])])

\* determinant and inverse of a 1x1 or 2x2 matrix (numpy.linalg.inv, which
\* matrix_power applies for a negative exponent)
Det(M) ==
    IF Len(M) = 1 THEN M[1][1]
    ELSE RSub(RMul(M[1][1], M[2][2]), RMul(M[1][2], M[2][1]))

inv(M) ==
    IF Len(M) = 1 THEN <<<<RDiv(Q(1), M[1][1])>>>>
    ELSE LET d == Det(M)
         IN  << <<RDiv(M[2][2], d), RDiv(RSub(Q(0), M[1][2]), d)>>,
                <<RDiv(RSub(Q(0), M[2][1]), d), RDiv(M[1][1], d)>> >>

RECURSIVE PowNat(_, _)
PowNat(M0, n) ==
    CHOOSE r \in {IF n = 0 THEN Eye(Len(M)) ELSE MatMul(PowNat(M, n - 1), M) : M \in {M0}} : TRUE

\* np.linalg.matrix_power(M, n): identity for n = 0, powers of the inverse
\* for n < 0
matrix_power(M, n) == IF n < 0 THEN PowNat(inv(M), -n) ELSE PowNat(M, n)


---------------------------------------------------------------------------
\* The heap: the caller's model and the locals of the running call.

ModRefs ==
    {"mod.F", "mod.G", "mod.a", "mod.R", "mod.W", "mod.param1", "mod.param2",
     "mod.discount_forecast", "mod.nregn", "mod.iregn"}

\* "F", "aR.a", "aR.R", "a", "R", "samps" are the array objects the calls
\* allocate; "F.ref" is the object the local variable F is bound to; the
\* others are the locals of forecast_path.
LocalRefs ==
    {"F", "F.ref", "aR.a", "aR.R", "a", "R", "samps", "param1", "param2",
     "k", "X", "nsamps", "n", "i", "ft", "qt", "ft_star", "qt_star", "m", "C"}

Refs == ModRefs \cup LocalRefs

\* the frame of a call is dropped when it returns
Return(h) == [r \in Refs |-> IF r \in ModRefs THEN h[r] ELSE None]

\* np.copy(src): a new array object dst holding src's contents
np_copy_alias(h, dst, src) == [heap |-> h, ref |-> src]
np_copy(h, dst, src) == [heap |-> [h EXCEPT ![dst] = h[src]], ref |-> dst]

RECURSIVE setitems(_, _, _)
\* arr[idx] = vals, element by element
setitems(arr0, idx0, vals0) ==
    CHOOSE r \in
      { IF Len(idx) = 0 THEN arr
        ELSE setitems([arr EXCEPT ![Head(idx)] = Head(vals)], Tail(idx), Tail(vals))
        : arr \in {arr0}, idx \in {idx0}, vals \in {vals0} } : TRUE

\* F[mod.iregn] = X.reshape(mod.nregn, 1), in place on the object F is bound to
plug_in_F(h, Fref, X) ==
    IF h["mod.nregn"] > 0
    THEN [h EXCEPT ![Fref] = setitems(@, h["mod.iregn"], X)]
    ELSE h

---------------------------------------------------------------------------
\* The capability interface of the model object (its methods are defined
\* outside forecast.py).  The moments of the linear predictor are F'a and
\* F'RF; every other method is an uninterpreted function of its arguments,
\* the model it is called on among them, except that a draw returns what
\* the random source hands it and update_conjugate_params returns
\* pseudo-moments that move with the observation: y = 0 leaves them where
\* they were.

get_mean_and_var(F, a, R) == <<Dot(F, a), Dot(F, MatVec(R, F))>>

get_conjugate_params(id, ft, qt, param1, param2) ==
    << <<"conj1", id, ft, qt, param1, param2>>,
       <<"conj2", id, ft, qt, param1, param2>> >>

get_mean(id, param1, param2) == <<"get_mean", id, param1, param2>>

simulate(id, param1, param2, nsamps, rv) == rv

simulate_from_prior(id, param1, param2, nsamps) ==
    <<"simulate_from_prior", id, param1, param2, nsamps>>

\* the updated parameters and the updated moments (ft*, qt*) of the linear
\* predictor: the observation moves the mean by y, so an observation of 0
\* leaves the moments as they were
update_conjugate_params(id, y, param1, param2) ==
    << <<"upd1", id, y, param1, param2>>,
       <<"upd2", id, y, param1, param2>>,
       RAdd(param1[3], y),
       param1[4] >>

prior_inverse_cdf(id, u, param1, param2) ==
    <<"prior_inverse_cdf", id, u, param1, param2>>

simulate_from_sampling_model(id, prior, nsamps) ==
    <<"simulate_from_sampling_model", id, prior, nsamps>>

sampling_density(id, y, prior) == <<"sampling_density", id, y, prior>>

---------------------------------------------------------------------------
\* forecast_aR: the state prior k steps ahead.

\* R += (k - 1) * mod.W, in place on the array bound to R
discount_add(h, Rref, k) ==
    IF h["mod.discount_forecast"]
    THEN [h EXCEPT ![Rref] = MatAdd(@, MatScale(Q(k - 1), h["mod.W"]))]
    ELSE h

forecast_aR_power_k(h, k) ==
    Let(matrix_power(h["mod.G"], k), LAMBDA Gk :
      [heap |-> discount_add([h EXCEPT !["aR.a"] = MatVec(Gk, h["mod.a"]),
                                       !["aR.R"] = MatMul(MatMul(Gk, h["mod.R"]), Transpose(Gk))],
                             "aR.R", k),
       err |-> "None", a |-> "aR.a", R |-> "aR.R"])

\* numpy.linalg.inv raises LinAlgError on a singular matrix; Gk @ mod.a and
\* Gk @ mod.R @ Gk.T are new arrays
forecast_aR(h, k) ==
    IF k - 1 < 0 /\ Det(h["mod.G"]) = Q(0)
    THEN [heap |-> h, err |-> "LinAlgError", a |-> "aR.a", R |-> "aR.R"]
    ELSE Let(matrix_power(h["mod.G"], k - 1), LAMBDA Gk :
           [heap |-> discount_add([h EXCEPT !["aR.a"] = MatVec(Gk, h["mod.a"]),
                                            !["aR.R"] = MatMul(MatMul(Gk, h["mod.R"]), Transpose(Gk))],
                                  "aR.R", k),
            err |-> "None", a |-> "aR.a", R |-> "aR.R"])

---------------------------------------------------------------------------
\* The marginal forecasters.

\* lines 19-27, shared by the three functions: F with the regressors plugged
\* in, the prior k steps ahead, the moments of the linear predictor
Moments(h, k, X) ==
    Let(np_copy(h, "F", "mod.F"), LAMBDA c :
    Let(forecast_aR(plug_in_F(c.heap, c.ref, X), k), LAMBDA r :
      IF r.err # "None" THEN [heap |-> r.heap, err |-> r.err, ft |-> None, qt |-> None]
      ELSE Let(get_mean_and_var(r.heap[c.ref], r.heap[r.a], r.heap[r.R]), LAMBDA mv :
             [heap |-> r.heap, err |-> "None", ft |-> mv[1], qt |-> mv[2]])))

forecast_marginal(h, k, X, nsamps, mean_only, state_mean_var, rv) ==
    Let(Moments(h, k, X), LAMBDA mo :
      IF mo.err # "None" THEN [heap |-> mo.heap, err |-> mo.err, val |-> None]
      ELSE IF state_mean_var THEN [heap |-> mo.heap, err |-> "None", val |-> <<mo.ft, mo.qt>>]
      ELSE Let(get_conjugate_params("mod", mo.ft, mo.qt, mo.heap["mod.param1"],
                                    mo.heap["mod.param2"]), LAMBDA cp :
             IF mean_only
             THEN [heap |-> mo.heap, err |-> "None", val |-> get_mean("mod", cp[1], cp[2])]
             ELSE [heap |-> mo.heap, err |-> "None",
                   val |-> simulate("mod", cp[1], cp[2], nsamps, rv)]))

forecast_state_mean_and_var(h, k, X) ==
    Let(Moments(h, k, X), LAMBDA mo :
      IF mo.err # "None" THEN [heap |-> mo.heap, err |-> mo.err, val |-> None]
      ELSE [heap |-> mo.heap, err |-> "None", val |-> <<mo.ft, mo.qt>>])

forecast_marginal_dens_MC(h, k, X, nsamps, y) ==
    Let(Moments(h, k, X), LAMBDA mo :
      IF mo.err # "None" THEN [heap |-> mo.heap, err |-> mo.err, val |-> None]
      ELSE Let(get_conjugate_params("mod", mo.ft, mo.qt, mo.heap["mod.param1"],
                                    mo.heap["mod.param2"]), LAMBDA cp :
             [heap |-> mo.heap, err |-> "None",
              val |-> <<"log", <<"mean",
                        sampling_density("mod", y,
                            simulate_from_prior("mod", cp[1], cp[2], nsamps))>>>>]))

---------------------------------------------------------------------------
\* forecast_path: the exact path simulator, one action per loop iteration.

\* lines 50-52: samps = np.zeros([nsamps, k]); F = np.copy(mod.F)
path_enter(h, k, X, nsamps) ==
    LET c == np_copy(h, "F", "mod.F")
    IN  [c.heap EXCEPT !["F.ref"] = c.ref,
                       !["samps"] = Vec([n \in 1..nsamps |-> Vec([i \in 1..k |-> Q(0)])]),
                       !["k"] = k, !["X"] = X, !["nsamps"] = nsamps, !["n"] = 0]

sample_init_first_only(h) ==
    IF h["n"] > 0 THEN [h EXCEPT !["i"] = 0]
    ELSE LET ca == np_copy(h, "a", "mod.a")
             cR == np_copy(ca.heap, "R", "mod.R")
         IN  [cR.heap EXCEPT !["param1"] = h["mod.param1"],
                             !["param2"] = h["mod.param2"],
                             !["a"] = cR.heap[ca.ref],
                             !["R"] = cR.heap[cR.ref],
                             !["i"] = 0]

\* lines 55-59: the working copy of a sample.  a and R are only ever
\* rebound afterwards, never written in place, so their cells hold the
\* value of the object the variable is bound to.
sample_init(h) ==
    LET ca == np_copy(h, "a", "mod.a")
        cR == np_copy(ca.heap, "R", "mod.R")
    IN  [cR.heap EXCEPT !["param1"] = h["mod.param1"],
                        !["param2"] = h["mod.param2"],
                        !["a"] = cR.heap[ca.ref],
                        !["R"] = cR.heap[cR.ref],
                        !["i"] = 0]

\* lines 80-81: m = a + R @ F * (ft_star - ft)/qt
kalman_m(a, R, F, ft, qt, ft_star) ==
    VecAdd(a, VecScale(RDiv(RSub(ft_star, ft), qt), MatVec(R, F)))

\* C = R - R @ F @ F.T @ R * (1 - qt_star/qt)/qt
kalman_C(R, F, qt, qt_star) ==
    MatSub(R, MatScale(RDiv(RSub(Q(1), RDiv(qt_star, qt)), qt),
                       Outer(MatVec(R, F), VecMat(F, R))))

propagate_a_identity(h, m) == m

\* lines 84-90: a = G m; R = G C G', symmetrised, plus W when discounting
propagate_a(h, m) == MatVec(h["mod.G"], m)
propagate_R(h, C) ==
    LET R1 == MatMul(MatMul(h["mod.G"], C), Transpose(h["mod.G"]))
        R2 == MatScale(<<1, 2>>, MatAdd(R1, Transpose(R1)))
    IN  IF h["mod.discount_forecast"] THEN MatAdd(R2, h["mod.W"]) ELSE R2

\* lines 63-90: step i of sample n, rv being what mod.simulate draws
path_step(h, rv) ==
    LET n == h["n"]
        i == h["i"]
        h1 == plug_in_F(h, h["F.ref"], IF h["mod.nregn"] > 0 THEN h["X"][i + 1] ELSE None)
        F == h1[h1["F.ref"]]
        mv == get_mean_and_var(F, h1["a"], h1["R"])
        ft == mv[1]
        qt == mv[2]
        cp == get_conjugate_params("mod", ft, qt, h1["param1"], h1["param2"])
        y == simulate("mod", cp[1], cp[2], 1, rv)
        up == update_conjugate_params("mod", y, cp[1], cp[2])
        m == kalman_m(h1["a"], h1["R"], F, ft, qt, up[3])
        C == kalman_C(h1["R"], F, qt, up[4])
    IN  [h1 EXCEPT !["ft"] = ft, !["qt"] = qt,
                   !["samps"] = [@ EXCEPT ![n + 1][i + 1] = y],
                   !["param1"] = up[1], !["param2"] = up[2],
                   !["ft_star"] = up[3], !["qt_star"] = up[4],
                   !["m"] = m, !["C"] = C,
                   !["a"] = propagate_a(h1, m),
                   !["R"] = propagate_R(h1, C),
                   !["i"] = i + 1]

---------------------------------------------------------------------------
\* The joint samplers of numpy and of this file.

\* np.random.multivariate_normal(mean, cov, size = nsamps): the draws, a
\* function of the arguments and the random source; numpy raises ValueError
\* on a mean of length 0 (it reshapes the empty draw to (-1, 0))
np_random_multivariate_normal_empty_ok(mean, cov, nsamps) ==
    [err |-> "None", val |-> <<"multivariate_normal", mean, cov, nsamps>>]
np_random_multivariate_normal(mean, cov, nsamps) ==
    IF Len(mean) = 0 THEN [err |-> "ValueError", val |-> None]
    ELSE [err |-> "None", val |-> <<"multivariate_normal", mean, cov, nsamps>>]

\* lines 356-366
multivariate_t(mean, scale, nu, nsamps) ==
    Let(np_random_multivariate_normal(Vec([i \in 1..Len(mean) |-> Q(0)]), scale, nsamps),
        LAMBDA Z :
          IF Z.err # "None" THEN Z
          ELSE [err |-> "None",
                val |-> <<"add", mean, <<"div", Z.val, <<"sqrt",
                          <<"tile", <<"gamma", RDiv(Q(nu), Q(2)), RDiv(Q(2), Q(nu)), nsamps>>,
                            Len(mean)>>>>>>>>])

\* the rows of the joint draws and the marginal distribution of each margin
\* (lines 207-213, 246-250, 286-292, 326-330), js being the joint sampler's
\* result and scale the scale matrix of the Student-t
joint_margins(js, lambda_mu, lambda_cov, scale, t_dist, nu) ==
    IF js.err # "None" THEN [err |-> js.err, joint_samps |-> None, genlist |-> None]
    ELSE [err |-> "None",
          joint_samps |-> Vec([i \in 1..Len(lambda_mu) |-> <<"row", i, js.val>>]),
          genlist |-> Vec([i \in 1..Len(lambda_mu) |->
              IF t_dist THEN <<"stats.t", lambda_mu[i], <<"sqrt", scale[i][i]>>, nu>>
              ELSE <<"stats.norm", lambda_mu[i], <<"sqrt", lambda_cov[i][i]>>>>])]

\* lines 203-213, 242-250, 282-292, 322-330
joint_draws(lambda_mu, lambda_cov, nsamps, t_dist, nu) ==
    Let(MatScale(RDiv(Q(nu - 2), Q(nu)), lambda_cov), LAMBDA scale :
      joint_margins(IF t_dist THEN multivariate_t(lambda_mu, scale, nu, nsamps)
                    ELSE np_random_multivariate_normal(lambda_mu, lambda_cov, nsamps),
                    lambda_mu, lambda_cov, scale, t_dist, nu))

Min(x, y) == IF x < y THEN x ELSE y

\* boolean-mask indexing: the positions of y that are not NaN, in order
not_missing(y) == SelectSeq([i \in 1..Len(y) |-> i], LAMBDA i : ~isnan(y[i]))
mask_vec(v, idx) == Vec([r \in 1..Len(idx) |-> v[idx[r]]])
mask_mat(M, idx) ==
    Vec([r \in 1..Len(idx) |-> Vec([q \in 1..Len(idx) |-> M[idx[r]][idx[q]]])])

\* lines 264-273 and 345-354: the densities of each sample multiplied over
\* the margins, averaged over the samples, on the log scale; the mean of
\* no samples is NaN
log_mean_density(density_list) ==
    IF Len(density_list) = 0 THEN NaN
    ELSE <<"log", <<"mean", <<"exp_sum_log", density_list>>>>>>

\* lines 215-225 and 252-262: each margin's conjugate match, uniform
\* variate and prior draw, all on the one model
margin_priors(mod, lambda_mu, lambda_cov, jd) ==
    Vec([i \in 1..Len(lambda_mu) |->
        Let(get_conjugate_params(mod.id, lambda_mu[i], lambda_cov[i][i],
                                 mod.param1, mod.param2), LAMBDA conj_params :
          prior_inverse_cdf(mod.id, <<"cdf", jd.genlist[i], jd.joint_samps[i]>>,
                            conj_params[1], conj_params[2]))])

\* lines 227-229
sample_margins(id, priorlist, nsamps) ==
    Vec([i \in 1..Len(priorlist) |-> simulate_from_sampling_model(id, priorlist[i], nsamps)])

\* lines 264-265 and 345-346; map stops at the shorter of its lists
margin_densities(id, y, priorlist) ==
    Vec([i \in 1..Min(Len(y), Len(priorlist)) |-> sampling_density(id, y[i], priorlist[i])])

forecast_path_approx_sim(mod, k, lambda_mu, lambda_cov, nsamps, t_dist, nu) ==
    Let(joint_draws(lambda_mu, lambda_cov, nsamps, t_dist, nu), LAMBDA jd :
      IF jd.err # "None" THEN [err |-> jd.err, val |-> None]
      ELSE [err |-> "None",
            val |-> sample_margins(mod.id, margin_priors(mod, lambda_mu, lambda_cov, jd),
                                   nsamps)])

\* lines 241-273, on the inputs the mask of lines 236-239 left
path_dens_MC_masked(mod, y, lambda_mu, lambda_cov, t_dist, nu, nsamps) ==
    Let(joint_draws(lambda_mu, lambda_cov, nsamps, t_dist, nu), LAMBDA jd :
      IF jd.err # "None" THEN [err |-> jd.err, val |-> None]
      ELSE [err |-> "None",
            val |-> log_mean_density(
                      margin_densities(mod.id, y,
                                       margin_priors(mod, lambda_mu, lambda_cov, jd)))])

forecast_path_approx_dens_MC(mod, y0, lambda_mu0, lambda_cov0, t_dist, nu, nsamps) ==
    Let(not_missing(y0), LAMBDA nm :
      path_dens_MC_masked(mod, mask_vec(y0, nm), mask_vec(lambda_mu0, nm),
                          mask_mat(lambda_cov0, nm), t_dist, nu, nsamps))

\* lines 294-305 and 332-343: the conjugate match runs over mod_list, each
\* model on the entry at its own position; after that loop the variable mod
\* stays bound to the last model of the list, and the lambdas that follow
\* read it.  map stops at the shorter of its lists.
joint_margin_priors(mod_list, lambda_mu, lambda_cov, jd) ==
    Vec([i \in 1..Min(Len(mod_list), Len(lambda_mu)) |->
        Let(get_conjugate_params(mod_list[i].id, lambda_mu[i], lambda_cov[i][i],
                                 mod_list[i].param1, mod_list[i].param2), LAMBDA conj_params :
          prior_inverse_cdf(mod_list[Len(mod_list)].id,
                            <<"cdf", jd.genlist[i], jd.joint_samps[i]>>,
                            conj_params[1], conj_params[2]))])

\* the loop of lines 294-297 and 332-335 indexes lambda_mu at every position
\* of mod_list
forecast_joint_approx_sim(mod_list, lambda_mu, lambda_cov, nsamps, t_dist, nu) ==
    Let(joint_draws(lambda_mu, lambda_cov, nsamps, t_dist, nu), LAMBDA jd :
      IF jd.err # "None" THEN [err |-> jd.err, val |-> None]
      ELSE IF Len(mod_list) > Len(lambda_mu) THEN [err |-> "IndexError", val |-> None]
      ELSE [err |-> "None",
            val |-> sample_margins(mod_list[Len(mod_list)].id,
                                   joint_margin_priors(mod_list, lambda_mu, lambda_cov, jd),
                                   nsamps)])

\* lines 321-354, on the inputs the mask of lines 316-319 left
joint_dens_MC_masked(mod_list, y, lambda_mu, lambda_cov, t_dist, nu, nsamps) ==
    Let(joint_draws(lambda_mu, lambda_cov, nsamps, t_dist, nu), LAMBDA jd :
      IF jd.err # "None" THEN [err |-> jd.err, val |-> None]
      ELSE IF Len(mod_list) > Len(lambda_mu) THEN [err |-> "IndexError", val |-> None]
      ELSE [err |-> "None",
            val |-> log_mean_density(
                      margin_densities(mod_list[Len(mod_list)].id, y,
                          joint_margin_priors(mod_list, lambda_mu, lambda_cov, jd)))])

forecast_joint_approx_dens_MC(mod_list, y0, lambda_mu0, lambda_cov0, t_dist, nu, nsamps) ==
    Let(not_missing(y0), LAMBDA nm :
      joint_dens_MC_masked(mod_list, mask_vec(y0, nm), mask_vec(lambda_mu0, nm),
                           mask_mat(lambda_cov0, nm), t_dist, nu, nsamps))

---------------------------------------------------------------------------
\* forecast_path_approx: the joint distribution of the linear predictor over
\* the horizon, then the copula sampler or the density estimator.

\* lines 131-134: the entry of lambda_cov for the steps j < i (0-based)
cross_cov(G, Rlist, Flist, i, j) ==
    Dot(Flist[j + 1], MatVec(MatMul(matrix_power(G, i - j), Rlist[j + 1]), Flist[i + 1]))

RECURSIVE cross_terms(_, _, _, _, _, _)
\* lines 130-134, for j = j0 .. i-1
cross_terms(lambda_cov0, G0, Rlist0, Flist0, i, j) ==
    CHOOSE res \in
      { IF j >= i THEN lambda_cov
        ELSE Let(cross_cov(G, Rlist, Flist, i, j), LAMBDA v :
               cross_terms([lambda_cov EXCEPT ![j + 1][i + 1] = v, ![i + 1][j + 1] = v],
                           G, Rlist, Flist, i, j + 1))
        : lambda_cov \in {lambda_cov0}, G \in {G0}, Rlist \in {Rlist0}, Flist \in {Flist0} }
      : TRUE

\* lines 119-134 of one pass of the loop over i: the moments of the linear
\* predictor, the diagonal entry, then the cross terms.  Rlist[i] and
\* Flist[i] hold the values of arrays that are not written again.
build_moments(st, h1, F, a, R, i) ==
    Let(get_mean_and_var(F, a, R), LAMBDA mv :
      [heap |-> h1,
       lambda_mu |-> [st.lambda_mu EXCEPT ![i + 1] = mv[1]],
       lambda_cov |-> cross_terms([st.lambda_cov EXCEPT ![i + 1][i + 1] = mv[2]],
                                  h1["mod.G"], Append(st.Rlist, R), Append(st.Flist, F), i, 0),
       Flist |-> Append(st.Flist, F), Rlist |-> Append(st.Rlist, R)])

build_row_horizon_i(st, Fref, X, i) ==
    Let(forecast_aR(st.heap, i), LAMBDA r :
    Let(plug_in_F(r.heap, Fref, IF r.heap["mod.nregn"] > 0 THEN X[i + 1] ELSE None),
        LAMBDA h1 : build_moments(st, h1, h1[Fref], r.heap[r.a], r.heap[r.R], i)))

\* lines 112-134, one pass of the loop over i
build_row(st, Fref, X, i) ==
    Let(forecast_aR(st.heap, i + 1), LAMBDA r :
    Let(plug_in_F(r.heap, Fref, IF r.heap["mod.nregn"] > 0 THEN X[i + 1] ELSE None),
        LAMBDA h1 : build_moments(st, h1, h1[Fref], r.heap[r.a], r.heap[r.R], i)))

RECURSIVE build_rows(_, _, _, _, _)
\* lines 111-134, for i = i0 .. k-1
build_rows(st0, Fref, X, i, k) ==
    CHOOSE res \in
      { IF i >= k THEN st ELSE build_rows(build_row(st, Fref, X, i), Fref, X, i + 1, k)
        : st \in {st0} } : TRUE

\* lines 103-134; np.zeros raises ValueError on a negative k
lambda_build(h, k, X) ==
    IF k < 0
    THEN [heap |-> h, err |-> "ValueError", lambda_mu |-> None, lambda_cov |-> None,
          Flist |-> None, Rlist |-> None]
    ELSE Let(np_copy(h, "F", "mod.F"), LAMBDA c :
         Let(build_rows([heap |-> c.heap,
                         lambda_mu |-> Vec([i \in 1..k |-> Q(0)]),
                         lambda_cov |-> Vec([i \in 1..k |-> Vec([j \in 1..k |-> Q(0)])]),
                         Flist |-> <<>>, Rlist |-> <<>>],
                        c.ref, X, 0, k), LAMBDA b :
           [heap |-> b.heap, err |-> "None", lambda_mu |-> b.lambda_mu,
            lambda_cov |-> b.lambda_cov, Flist |-> b.Flist, Rlist |-> b.Rlist]))

ModObj(h) == [id |-> "mod", param1 |-> h["mod.param1"], param2 |-> h["mod.param2"]]

\* lines 136-139, b being what lines 103-134 built
forecast_path_approx_tail(b, k, nsamps, t_dist, y, nu) ==
    IF b.err # "None" THEN [err |-> b.err, val |-> None]
    ELSE IF ~IsNone(y)
    THEN forecast_path_approx_dens_MC(ModObj(b.heap), y[2], b.lambda_mu, b.lambda_cov,
                                      t_dist, nu, nsamps)
    ELSE forecast_path_approx_sim(ModObj(b.heap), k, b.lambda_mu, b.lambda_cov,
                                  nsamps, t_dist, nu)

---------------------------------------------------------------------------
\* The model snapshots and the inputs of the calls.

I2 == <<<<Q(1), Q(0)>>, <<Q(0), Q(1)>>>>
Shear == <<<<Q(1), Q(1)>>, <<Q(0), Q(1)>>>>
Gs == {I2, Shear}
W0 == <<<<Q(1), Q(0)>>, <<Q(0), Q(2)>>>>
R0 == <<<<Q(2), Q(1)>>, <<Q(1), Q(2)>>>>
a0 == <<Q(1), Q(2)>>
F0 == <<Q(1), Q(1)>>
XVals == {Q(0), Q(1)}
YVals == {Q(0), Q(1)}
NSamps == {1, 2}
Ks == (1 - MaxNeg) .. MaxK

\* the regressor rows of a call: k rows of nregn values each, None without
\* regressors
XRows(h, k) ==
    IF h["mod.nregn"] = 0 THEN {None}
    ELSE [1..(IF k < 0 THEN 0 ELSE k) -> [1..h["mod.nregn"] -> XVals]]
XRow(h) == IF h["mod.nregn"] = 0 THEN {None} ELSE [1..h["mod.nregn"] -> XVals]

ModelIds == {"m0", "m1"}
Mdl(id) == [id |-> id, param1 |-> <<"param1", id>>, param2 |-> <<"param2", id>>]
\* degrees of freedom of the Student-t copula (the default of the source)
nu0 == 9
\* the joint distribution handed to the multi-series routines
JointMu(k) == Vec([i \in 1..k |-> Q(i)])
JointCov(k) == Vec([i \in 1..k |-> Vec([j \in 1..k |-> IF i = j THEN Q(10 + i) ELSE Q(i * j)])])
YVecs(k) == [1..k -> {NaN, Q(1)}]

Init ==
    /\ \E G \in Gs, d \in BOOLEAN, nregn \in {0, 1} :
         heap = [r \in Refs |->
                   CASE r = "mod.F" -> F0
                     [] r = "mod.G" -> G
                     [] r = "mod.a" -> a0
                     [] r = "mod.R" -> R0
                     [] r = "mod.W" -> W0
                     [] r = "mod.param1" -> <<"param1", "mod">>
                     [] r = "mod.param2" -> <<"param2", "mod">>
                     [] r = "mod.discount_forecast" -> d
                     [] r = "mod.nregn" -> nregn
                     [] r = "mod.iregn" -> (IF nregn = 0 THEN <<>> ELSE <<2>>)
                     [] OTHER -> None]
    /\ pc = "idle"
    /\ ret = [fn |-> "none", args |-> None, err |-> "None", val |-> None, vars |-> None]

Call_forecast_aR ==
    /\ pc = "idle"
    /\ \E k \in Ks :
         \E r \in {forecast_aR(heap, k)} :
             /\ heap' = Return(r.heap)
             /\ ret' = [fn |-> "forecast_aR", args |-> [k |-> k], err |-> r.err,
                        val |-> IF r.err = "None" THEN <<r.heap[r.a], r.heap[r.R]>> ELSE None,
                        vars |-> None]
    /\ pc' = "returned"

Call_forecast_marginal ==
    /\ pc = "idle"
    /\ \E k \in Ks, X \in XRow(heap), nsamps \in NSamps,
          mode \in {"samples", "mean_only", "state_mean_var"} :
         \E rv \in IF mode = "samples" THEN [1..nsamps -> YVals] ELSE {None} :
           \E r \in {forecast_marginal(heap, k, X, nsamps, mode = "mean_only",
                                      mode = "state_mean_var", rv)} :
               /\ heap' = Return(r.heap)
               /\ ret' = [fn |-> "forecast_marginal",
                          args |-> [k |-> k, X |-> X, nsamps |-> nsamps, mode |-> mode],
                          err |-> r.err, val |-> r.val, vars |-> None]
    /\ pc' = "returned"

Call_forecast_state_mean_and_var ==
    /\ pc = "idle"
    /\ \E k \in Ks, X \in XRow(heap) :
         \E r \in {forecast_state_mean_and_var(heap, k, X)} :
             /\ heap' = Return(r.heap)
             /\ ret' = [fn |-> "forecast_state_mean_and_var", args |-> [k |-> k, X |-> X],
                        err |-> r.err, val |-> r.val, vars |-> None]
    /\ pc' = "returned"

Call_forecast_marginal_dens_MC ==
    /\ pc = "idle"
    /\ \E k \in Ks, X \in XRow(heap), nsamps \in NSamps, y \in YVals :
         \E r \in {forecast_marginal_dens_MC(heap, k, X, nsamps, y)} :
             /\ heap' = Return(r.heap)
             /\ ret' = [fn |-> "forecast_marginal_dens_MC",
                        args |-> [k |-> k, X |-> X, nsamps |-> nsamps, y |-> y],
                        err |-> r.err, val |-> r.val, vars |-> None]
    /\ pc' = "returned"

\* forecast_path, lines 50-52; np.zeros raises ValueError on a negative k
Call_forecast_path ==
    /\ pc = "idle"
    /\ \E k \in Ks, nsamps \in NSamps :
         \E X \in XRows(heap, k) :
           IF k < 0
           THEN /\ heap' = Return(heap)
                /\ ret' = [fn |-> "forecast_path",
                           args |-> [k |-> k, X |-> X, nsamps |-> nsamps],
                           err |-> "ValueError", val |-> None, vars |-> None]
                /\ pc' = "returned"
           ELSE /\ heap' = path_enter(heap, k, X, nsamps)
                /\ pc' = "path_sample"
                /\ UNCHANGED ret

\* the head of the loop over the samples, lines 54-59
PathSampleBegin ==
    /\ pc = "path_sample"
    /\ heap["n"] < heap["nsamps"]
    /\ \E h \in {sample_init(heap)} :
         IF heap["k"] = 0
         THEN /\ heap' = [h EXCEPT !["n"] = @ + 1]
              /\ pc' = "path_sample"
         ELSE /\ heap' = h
              /\ pc' = "path_step"
    /\ UNCHANGED ret

\* one pass of the loop over the steps, lines 61-90
PathStep ==
    /\ pc = "path_step"
    /\ \E rv \in YVals :
         \E h \in {path_step(heap, rv)} :
           IF h["i"] = h["k"]
           THEN /\ heap' = [h EXCEPT !["n"] = @ + 1]
                /\ pc' = "path_sample"
           ELSE /\ heap' = h
                /\ pc' = "path_step"
    /\ UNCHANGED ret

\* line 92
PathReturn ==
    /\ pc = "path_sample"
    /\ heap["n"] = heap["nsamps"]
    /\ ret' = [fn |-> "forecast_path",
               args |-> [k |-> heap["k"], X |-> heap["X"], nsamps |-> heap["nsamps"]],
               err |-> "None", val |-> heap["samps"], vars |-> None]
    /\ heap' = Return(heap)
    /\ pc' = "returned"

Call_forecast_path_approx ==
    /\ pc = "idle"
    /\ \E k \in Ks :
         \E X \in XRows(heap, k) :
           \E b \in {lambda_build(heap, k, X)} :
             \E nsamps \in NSamps, t_dist \in BOOLEAN,
                y \in {None} \cup {Array(v) : v \in YVecs(IF k < 0 THEN 0 ELSE k)} :
               \E r \in {forecast_path_approx_tail(b, k, nsamps, t_dist, y, nu0)} :
                 /\ heap' = Return(b.heap)
                 /\ ret' = [fn |-> "forecast_path_approx",
                            args |-> [k |-> k, X |-> X, nsamps |-> nsamps,
                                      t_dist |-> t_dist, y |-> y],
                            err |-> r.err, val |-> r.val,
                            vars |-> [lambda_mu |-> b.lambda_mu, lambda_cov |-> b.lambda_cov,
                                      Flist |-> b.Flist, Rlist |-> b.Rlist]]
    /\ pc' = "returned"

Call_forecast_joint_approx_sim ==
    /\ pc = "idle"
    /\ \E k \in 1..MaxK, nsamps \in NSamps, t_dist \in BOOLEAN :
         \E ids \in [1..k -> ModelIds] :
           \E r \in {forecast_joint_approx_sim([i \in 1..k |-> Mdl(ids[i])], JointMu(k),
                                               JointCov(k), nsamps, t_dist, nu0)} :
             /\ ret' = [fn |-> "forecast_joint_approx_sim",
                        args |-> [mod_list |-> ids, lambda_mu |-> JointMu(k),
                                  lambda_cov |-> JointCov(k), nsamps |-> nsamps,
                                  t_dist |-> t_dist],
                        err |-> r.err, val |-> r.val, vars |-> None]
    /\ heap' = Return(heap)
    /\ pc' = "returned"

Call_forecast_joint_approx_dens_MC ==
    /\ pc = "idle"
    /\ \E k \in 1..MaxK, nsamps \in NSamps, t_dist \in BOOLEAN :
         \E ids \in [1..k -> ModelIds], y \in YVecs(k) :
           \E r \in {forecast_joint_approx_dens_MC([i \in 1..k |-> Mdl(ids[i])], y, JointMu(k),
                                                   JointCov(k), t_dist, nu0, nsamps)} :
             /\ ret' = [fn |-> "forecast_joint_approx_dens_MC",
                        args |-> [mod_list |-> ids, y |-> y, lambda_mu |-> JointMu(k),
                                  lambda_cov |-> JointCov(k), nsamps |-> nsamps,
                                  t_dist |-> t_dist],
                        err |-> r.err, val |-> r.val, vars |-> None]
    /\ heap' = Return(heap)
    /\ pc' = "returned"

\* the caller takes the result; the next call may follow
Consume ==
    /\ pc = "returned"
    /\ pc' = "idle"
    /\ ret' = [fn |-> "none", args |-> None, err |-> "None", val |-> None, vars |-> None]
    /\ UNCHANGED heap

Next ==
    \/ Call_forecast_aR
    \/ Call_forecast_marginal
    \/ Call_forecast_state_mean_and_var
    \/ Call_forecast_marginal_dens_MC
    \/ Call_forecast_path
    \/ PathSampleBegin
    \/ PathStep
    \/ PathReturn
    \/ Call_forecast_path_approx
    \/ Call_forecast_joint_approx_sim
    \/ Call_forecast_joint_approx_dens_MC
    \/ Consume

Spec == Init /\ [][Next]_vars


---------------------------------------------------------------------------
\* The properties.

\* the caller's model fields
ModelFields == {"mod.a", "mod.R", "mod.param1", "mod.param2", "mod.F", "mod.G", "mod.W"}

\* C1: no step of any call writes the caller's model fields a, R, param1,
\* param2, F, G, W: after any sequence of calls they hold the values they had
\* before the first call.
C1_ModelFieldsUnchanged == [][\A r \in ModelFields : heap'[r] = heap[r]]_vars

\* a marginal forecast with a regressor that differs from the stored F has
\* returned
C1_Witness ==
    /\ ret.fn = "forecast_marginal"
    /\ ret.err = "None"
    /\ ret.args.k >= 1
    /\ heap["mod.nregn"] > 0
    /\ ret.args.X[1] # heap["mod.F"][heap["mod.iregn"][1]]

\* the state prior k steps ahead by its recurrence: a_1 = a, a_(k+1) = G a_k
\* and R_1 = R, R_(k+1) = G R_k G'
RECURSIVE a_ahead(_, _, _)
a_ahead(G, a, k) == IF k <= 1 THEN a ELSE MatVec(G, a_ahead(G, a, k - 1))
RECURSIVE R_ahead(_, _, _)
R_ahead(G, R, k) ==
    IF k <= 1 THEN R ELSE MatMul(MatMul(G, R_ahead(G, R, k - 1)), Transpose(G))

\* C2: for k >= 1 forecast_aR returns G^(k-1) a and G^(k-1) R G^(k-1)', with
\* (k-1) W added exactly when discount_forecast is set; at k = 1 it returns
\* (a, R) unchanged.
C2_ForecastARFormula ==
    (ret.fn = "forecast_aR" /\ ret.args.k >= 1) =>
        /\ ret.err = "None"
        /\ ret.val[1] = a_ahead(heap["mod.G"], heap["mod.a"], ret.args.k)
        /\ ret.val[2] = IF heap["mod.discount_forecast"]
                        THEN MatAdd(R_ahead(heap["mod.G"], heap["mod.R"], ret.args.k),
                                    MatScale(Q(ret.args.k - 1), heap["mod.W"]))
                        ELSE R_ahead(heap["mod.G"], heap["mod.R"], ret.args.k)
        /\ (ret.args.k = 1 => ret.val = <<heap["mod.a"], heap["mod.R"]>>)

\* forecast_aR has returned for a horizon beyond one step, on a model that
\* discounts and whose G is not the identity
C2_Witness ==
    /\ ret.fn = "forecast_aR"
    /\ ret.args.k >= 2
    /\ heap["mod.discount_forecast"]
    /\ heap["mod.G"] # I2

\* the regressor row of step i (1-based) of a call
RowOf(X, i) == IF heap["mod.nregn"] > 0 THEN X[i] ELSE None

\* C3: lambda_mu[i] and lambda_cov[i,i] built by forecast_path_approx equal
\* the (ft, qt) that forecast_state_mean_and_var and forecast_marginal with
\* state_mean_var return for horizon i+1 and the regressor row X[i]; the
\* cross terms written afterwards leave the diagonal as it was.
C3_DiagonalIsMarginal ==
    (ret.fn = "forecast_path_approx" /\ ret.args.k >= 1) =>
        \A i \in 1..ret.args.k :
            /\ <<ret.vars.lambda_mu[i], ret.vars.lambda_cov[i][i]>>
                 = forecast_state_mean_and_var(heap, i, RowOf(ret.args.X, i)).val
            /\ <<ret.vars.lambda_mu[i], ret.vars.lambda_cov[i][i]>>
                 = forecast_marginal(heap, i, RowOf(ret.args.X, i), 1, FALSE, TRUE, None).val

\* forecast_path_approx has built the joint of three steps with cross terms,
\* on a model with a regressor whose rows differ and a G that is not the
\* identity
C3_Witness ==
    /\ ret.fn = "forecast_path_approx"
    /\ ret.args.k = 3
    /\ heap["mod.nregn"] > 0
    /\ ret.args.X[1] # ret.args.X[2]
    /\ heap["mod.G"] # I2
    /\ ret.vars.lambda_cov[1][3] # Q(0)

\* the ids of the models behind margin i of a result: the model of the
\* sampling or density step, of the prior inverse CDF and of the conjugate
\* match
StepPrior(step) == IF step[1] = "sampling_density" THEN step[4] ELSE step[3]
StepModels(step) == <<step[2], StepPrior(step)[2], StepPrior(step)[4][2]>>

NoneMissing(y) == \A i \in 1..Len(y) : ~isnan(y[i])
AllMissing(y) == \A i \in 1..Len(y) : isnan(y[i])

\* C4: in forecast_joint_approx_sim and forecast_joint_approx_dens_MC every
\* margin i has its conjugate match, its prior inverse CDF and its sampling
\* or density step on mod_list[i].
C4_EachMarginOnItsModel ==
    /\ (ret.fn = "forecast_joint_approx_sim" /\ ret.err = "None") =>
          \A i \in 1..Len(ret.val) :
              \A s \in 1..3 : StepModels(ret.val[i])[s] = ret.args.mod_list[i]
    /\ (ret.fn = "forecast_joint_approx_dens_MC" /\ ret.err = "None"
           /\ NoneMissing(ret.args.y)) =>
          \A i \in 1..Len(ret.val[2][2][2]) :
              \A s \in 1..3 : StepModels(ret.val[2][2][2][i])[s] = ret.args.mod_list[i]

\* the call of the multi-series density estimator on the sub-problem of the
\* non-missing indices
JointSubProblem(a) ==
    forecast_joint_approx_dens_MC(
        [r \in 1..Len(not_missing(a.y)) |-> Mdl(a.mod_list[not_missing(a.y)[r]])],
        mask_vec(a.y, not_missing(a.y)), mask_vec(a.lambda_mu, not_missing(a.y)),
        mask_mat(a.lambda_cov, not_missing(a.y)), a.t_dist, nu0, a.nsamps)

\* the call of the single-series density estimator on the sub-problem
PathSubProblem(a, v) ==
    forecast_path_approx_dens_MC(
        ModObj(heap), mask_vec(a.y[2], not_missing(a.y[2])),
        mask_vec(v.lambda_mu, not_missing(a.y[2])),
        mask_mat(v.lambda_cov, not_missing(a.y[2])), a.t_dist, nu0, a.nsamps)

PartlyMissing(y) == ~NoneMissing(y) /\ ~AllMissing(y)

\* C5: with some but not all entries of y missing, both density estimators
\* give the result of a call on the sub-problem of the non-missing indices.
C5_MissingIsSubProblem ==
    /\ (ret.fn = "forecast_path_approx" /\ ret.args.k >= 1 /\ ~IsNone(ret.args.y)
           /\ PartlyMissing(ret.args.y[2])) =>
          /\ ret.err = PathSubProblem(ret.args, ret.vars).err
          /\ ret.val = PathSubProblem(ret.args, ret.vars).val
    /\ (ret.fn = "forecast_joint_approx_dens_MC" /\ PartlyMissing(ret.args.y)) =>
          /\ ret.err = JointSubProblem(ret.args).err
          /\ ret.val = JointSubProblem(ret.args).val

\* C6: a call of forecast_aR, forecast_marginal, forecast_path or
\* forecast_path_approx with k < 1 ends in an error and returns no value.
C6_HorizonBelowOneRejected ==
    (ret.fn \in {"forecast_aR", "forecast_marginal", "forecast_path",
                 "forecast_path_approx"} /\ ret.args.k < 1) =>
        ret.err # "None" /\ ret.val = None

\* a density request all of whose observations are missing has ended
AllMissingRequest ==
    \/ ret.fn = "forecast_path_approx" /\ ret.args.k >= 1 /\ ~IsNone(ret.args.y)
         /\ AllMissing(ret.args.y[2])
    \/ ret.fn = "forecast_joint_approx_dens_MC" /\ AllMissing(ret.args.y)

\* C7: a density request in which every entry of y is missing ends in the
\* ValueError that the joint sampler raises on a joint of no margins; it
\* returns no number.
C7_AllMissingEndsInError ==
    AllMissingRequest => ret.err = "ValueError" /\ ret.val = None

\* both kinds of request have been made with y all missing; this one is the
\* multi-series request on two margins
C7_Witness ==
    /\ AllMissingRequest
    /\ ret.fn = "forecast_joint_approx_dens_MC"
    /\ Len(ret.args.y) = 2

\* C7 as the specification states it: the request ends in an error of the
\* kind AllMissing.
C7_EndsInAllMissingError ==
    AllMissingRequest => ret.err = "AllMissing"

\* Cov(theta_j, theta_(j+d)) under theta_(t+1) = G theta_t + independent
\* noise: Cov(theta_j, theta_j) = R_j and
\* Cov(theta_j, theta_(t+1)) = Cov(theta_j, theta_t) G'
RECURSIVE state_cross_cov(_, _, _)
state_cross_cov(G, Rj, d) ==
    IF d = 0 THEN Rj ELSE MatMul(state_cross_cov(G, Rj, d - 1), Transpose(G))

\* C9: for j < i the entry lambda_cov[j,i] = lambda_cov[i,j] of
\* forecast_path_approx is the covariance of lambda_j = F_j' theta_j and
\* lambda_i = F_i' theta_i, F_j' Cov(theta_j, theta_i) F_i.
C9_CrossTermIsCovariance ==
    (ret.fn = "forecast_path_approx" /\ ret.args.k >= 2) =>
        \A i \in 1..ret.args.k : \A j \in 1..(i - 1) :
            /\ ret.vars.lambda_cov[j][i] = ret.vars.lambda_cov[i][j]
            /\ ret.vars.lambda_cov[j][i]
                 = Dot(ret.vars.Flist[j],
                       MatVec(state_cross_cov(heap["mod.G"], ret.vars.Rlist[j], i - j),
                              ret.vars.Flist[i]))

\* the working state of a sample at its first step is the model's
SampleStartsFromSnapshot ==
    (pc = "path_step" /\ heap["i"] = 0) =>
        /\ heap["a"] = heap["mod.a"]
        /\ heap["R"] = heap["mod.R"]
        /\ heap["param1"] = heap["mod.param1"]
        /\ heap["param2"] = heap["mod.param2"]

\* the observation that the step being taken has drawn
DrawnY == heap'["samps"][heap["n"] + 1][heap["i"] + 1]

\* the conjugate match of the step being taken
StepMatch ==
    get_conjugate_params("mod", heap'["ft"], heap'["qt"], heap["param1"], heap["param2"])

\* one step of a sample: (ft, qt) from the prior (a, R) and the F of the
\* step, the conjugate match from them, y drawn, the update with that y, m
\* and C from the updated moments, then a and R from m and C
StepInOrder ==
    /\ <<heap'["ft"], heap'["qt"]>>
         = get_mean_and_var(heap'[heap["F.ref"]], heap["a"], heap["R"])
    /\ <<heap'["param1"], heap'["param2"], heap'["ft_star"], heap'["qt_star"]>>
         = update_conjugate_params("mod", DrawnY, StepMatch[1], StepMatch[2])
    /\ heap'["m"] = kalman_m(heap["a"], heap["R"], heap'[heap["F.ref"]],
                             heap'["ft"], heap'["qt"], heap'["ft_star"])
    /\ heap'["C"] = kalman_C(heap["R"], heap'[heap["F.ref"]], heap'["qt"], heap'["qt_star"])
    /\ heap'["a"] = MatVec(heap["mod.G"], heap'["m"])
    /\ heap'["R"] = propagate_R(heap, heap'["C"])

\* C8: in forecast_path every sample starts its first step from the model's
\* a, R, param1, param2, whatever the earlier samples drew, and each step
\* runs moments, conjugate match, draw, update, correction, propagation in
\* that order.
C8_SamplesArePrivate ==
    /\ []SampleStartsFromSnapshot
    /\ [][pc = "path_step" => StepInOrder]_vars

\* the second sample is at its first step after the first sample drew an
\* observation that moved its working state
C8_Witness ==
    /\ pc = "path_step"
    /\ heap["i"] = 0
    /\ heap["n"] = 1
    /\ heap["k"] >= 2
    /\ heap["samps"][1][1] # Q(0)

\* every update of the sample so far has left the moments as they were: the
\* capability's update does so on an observation of 0
IdentitySoFar == \A l \in 1..heap["i"] : heap["samps"][heap["n"] + 1][l] = Q(0)

\* the evolution noise accumulated over i steps: the sum of G^l W G^l' for
\* l = 0 .. i-1
RECURSIVE W_accumulated(_, _, _)
W_accumulated(G, W, i) ==
    IF i = 0 THEN MatScale(Q(0), W)
    ELSE MatAdd(MatMul(MatMul(G, W_accumulated(G, W, i - 1)), Transpose(G)), W)

NoiseCommutes ==
    MatMul(MatMul(heap["mod.G"], heap["mod.W"]), Transpose(heap["mod.G"])) = heap["mod.W"]

\* C10: with updates that leave the moments unchanged, the prior of step i
\* of forecast_path has the mean of forecast_aR(mod, i+1) and the covariance
\* G^i R G^i' plus, when discounting, the accumulated noise; it equals the
\* covariance of forecast_aR(mod, i+1) when discount_forecast is off, when
\* i <= 1, or when G W G' = W.
C10_PathPriorIsEvolvedPrior ==
    (pc = "path_step" /\ IdentitySoFar) =>
        Let(forecast_aR(heap, heap["i"] + 1), LAMBDA r :
            /\ heap["a"] = r.heap[r.a]
            /\ heap["R"] = MatAdd(R_ahead(heap["mod.G"], heap["mod.R"], heap["i"] + 1),
                                  IF heap["mod.discount_forecast"]
                                  THEN W_accumulated(heap["mod.G"], heap["mod.W"], heap["i"])
                                  ELSE MatScale(Q(0), heap["mod.W"]))
            /\ (~heap["mod.discount_forecast"] \/ heap["i"] <= 1 \/ NoiseCommutes)
                   => heap["R"] = r.heap[r.R])

\* a sample on a discounting model is at its third step after two updates
\* that changed nothing
C10_Witness ==
    /\ pc = "path_step"
    /\ heap["i"] = 2
    /\ IdentitySoFar
    /\ heap["mod.discount_forecast"]

\* C10 as stated: with updates that leave the moments unchanged, the prior
\* of step i of forecast_path is forecast_aR(mod, i+1), for both settings of
\* discount_forecast.
C10_PathPriorIsForecastAR ==
    (pc = "path_step" /\ IdentitySoFar) =>
        Let(forecast_aR(heap, heap["i"] + 1), LAMBDA r :
            heap["a"] = r.heap[r.a] /\ heap["R"] = r.heap[r.R])

====
